---------------------------- MODULE Spec2Model ----------------------------
(***************************************************************************)
(* haphpipe/phylo.py: the console() entry point of the phylo sub-toolkit.  *)
(* console() builds an argparse parser, registers the multiple_align stage *)
(* under it, parses sys.argv[1:] and calls the handler the stage bound on  *)
(* the parsed namespace with the keywords sysutils.args_params selects.    *)
(*                                                                         *)
(* The command line is a sequence over a small alphabet of whole tokens;   *)
(* the alphabet holds only complete option strings, so argparse's prefix   *)
(* matching of long options coincides with exact matching here.            *)
(***************************************************************************)
EXTENDS Naturals, Sequences, FiniteSets

VARIABLES py, argv, pc, parser, args, kwargs, calls, outcome, retval, run, log

vars == <<py, argv, pc, parser, args, kwargs, calls, outcome, retval, run, log>>

-----------------------------------------------------------------------------
(* Bounds of the model *)

MaxArgv == 5

-----------------------------------------------------------------------------
(* Values a namespace attribute can hold *)

NoneVal == [ty |-> "None", s |-> "", n |-> 0]

Str(s) == [ty |-> "str", s |-> s, n |-> 0]

Int(n) == [ty |-> "int", s |-> "", n |-> n]

Func(h) == [ty |-> "func", s |-> h, n |-> 0]

(* A namespace (and a keyword dictionary) is a set of attributes, at most  *)
(* one per name.                                                           *)
Attr(k, v) == [k |-> k, v |-> v]

HasAttr(ns, k) == \E a \in ns : a.k = k

GetAttr(ns, k) == (CHOOSE a \in ns : a.k = k).v

SetAttr(ns, k, v) == {a \in ns : a.k # k} \cup {Attr(k, v)}

Names(ns) == {a.k : a \in ns}

-----------------------------------------------------------------------------
(* The command line *)

Tokens ==
    {"multiple_align", "build_tree", "--help", "--input", "--threads",
     "--bogus", "foo.fa", "4"}

(* argparse takes a token that starts with a prefix character for an       *)
(* option string, anything else for a positional argument.                 *)
OptionLike == {"--help", "--input", "--threads", "--bogus"}

Argvs == UNION {[1..n -> Tokens] : n \in 0..MaxArgv}

(* The interpreters `#! /usr/bin/env python` can resolve to. *)
Pythons == {2, 3}

-----------------------------------------------------------------------------
(* argparse: parsers, options and parse results *)

Option(flag, dest, kind, type, required, default) ==
    [flag |-> flag, dest |-> dest, kind |-> kind, type |-> type,
     required |-> required, default |-> default]

(* Every ArgumentParser is built with add_help=True: it owns -h/--help. *)
HelpOption == Option("--help", "help", "help", "str", FALSE, NoneVal)

(* argparse.ArgumentParser(...): a parser with its help option, no         *)
(* subparsers action and no parser-level defaults.                         *)
NewParser(name) ==
    [name |-> name, options |-> {HelpOption}, defaults |-> {},
     subparsers |-> FALSE, choices |-> {}]

Ok(ns, extras) ==
    [status |-> "ok", code |-> 0, diag |-> "", what |-> {}, usage |-> FALSE,
     listing |-> {}, ns |-> ns, extras |-> extras]

(* parser.error(msg) prints the usage line and the message and exits 2;    *)
(* the help action prints usage and the listing and exits 0.               *)
Exit(code, diag, what, listing) ==
    [status |-> "exit", code |-> code, diag |-> diag, what |-> what,
     usage |-> TRUE, listing |-> listing, ns |-> {}, extras |-> <<>>]

(* What format_help lists: the parser's option strings and the names of    *)
(* its subcommands.                                                        *)
Listing(p) == {o.flag : o \in p.options} \cup {c.name : c \in p.choices}

(* type=int accepts a decimal literal, type=str accepts every token. *)
Convertible(type, tok) == type = "str" \/ tok \in {"4"}

IntOf(tok) == CASE tok = "4" -> 4

Convert(type, tok) == IF type = "int" THEN Int(IntOf(tok)) ELSE Str(tok)

(* Mutant: the actions' defaults are not put on the namespace. *)
InitialNamespace_NoActionDefaults(p) == p.defaults

(* The namespace a parse starts from: each storing action's default, then  *)
(* the parser-level defaults (set_defaults) for names not yet present.     *)
InitialNamespace(p) ==
    LET fromActions == {Attr(o.dest, o.default) : o \in {q \in p.options : q.kind = "store"}}
    IN fromActions \cup {d \in p.defaults : ~HasAttr(fromActions, d.k)}

(* The subparsers action copies every attribute of the subcommand's        *)
(* namespace onto the root namespace.                                      *)
MergeNamespace(ns, sub) == {a \in ns : ~HasAttr(sub, a.k)} \cup sub

Range(s) == {s[i] : i \in DOMAIN s}

(* Mutant: the check of the required options is left out. *)
FinishParse_NoRequiredCheck(ver, p, ns, seen, extras, gotSub) ==
    IF ver = 2 /\ p.subparsers /\ ~gotSub
    THEN Exit(2, "too few arguments", {}, {})
    ELSE Ok(ns, extras)

(* The checks at the end of parse_known_args.  Python 2's argparse fails   *)
(* with "too few arguments" when a positional (here the subparsers action) *)
(* was not consumed; Python 3's subparsers action is optional unless       *)
(* required=True is passed.                                                *)
FinishParse(ver, p, ns, seen, extras, gotSub) ==
    LET missing == {o.flag : o \in {q \in p.options : q.required /\ q.dest \notin seen}}
    IN IF ver = 2 /\ p.subparsers /\ ~gotSub
       THEN Exit(2, "too few arguments", {}, {})
       ELSE IF missing # {}
       THEN Exit(2, "required", missing, {})
       ELSE Ok(ns, extras)

(* parse_known_args of parser p on a[i..], left to right.  A known option  *)
(* is consumed with its one value (converted at once), the help option     *)
(* exits at once, an unknown option or a stray positional is left in       *)
(* extras, and the subparsers action takes the first positional as the     *)
(* subcommand name and hands it every remaining token.                     *)
RECURSIVE parse_known_args(_, _, _, _, _, _, _)
parse_known_args(ver, p, a, i, ns, seen, extras) ==
    IF i > Len(a) THEN FinishParse(ver, p, ns, seen, extras, FALSE)
    ELSE LET tok == a[i] IN
      IF tok \in OptionLike
      THEN IF \E o \in p.options : o.flag = tok
           THEN LET o == CHOOSE q \in p.options : q.flag = tok IN
                IF o.kind = "help" THEN Exit(0, "help", {}, Listing(p))
                ELSE IF i + 1 > Len(a) \/ a[i + 1] \in OptionLike
                THEN Exit(2, "expected one argument", {tok}, {})
                ELSE IF ~Convertible(o.type, a[i + 1])
                THEN Exit(2, "invalid value", {tok}, {})
                ELSE parse_known_args(ver, p, a, i + 2,
                                      SetAttr(ns, o.dest, Convert(o.type, a[i + 1])),
                                      seen \cup {o.dest}, extras)
           ELSE parse_known_args(ver, p, a, i + 1, ns, seen, Append(extras, tok))
      ELSE IF p.subparsers
           THEN IF \A c \in p.choices : c.name # tok
                THEN Exit(2, "invalid choice", {tok}, {})
                ELSE LET c == CHOOSE q \in p.choices : q.name = tok
                         r == parse_known_args(ver, c, SubSeq(a, i + 1, Len(a)), 1,
                                               InitialNamespace(c), {}, <<>>)
                     IN IF r.status = "exit" THEN r
                        ELSE FinishParse(ver, p, MergeNamespace(ns, r.ns), seen,
                                         extras \o r.extras, TRUE)
           ELSE parse_known_args(ver, p, a, i + 1, ns, seen, Append(extras, tok))

(* parser.parse_args(): parse_known_args, then an error if anything was    *)
(* left unrecognized.                                                      *)
parse_args(ver, p, a) ==
    LET r == parse_known_args(ver, p, a, 1, InitialNamespace(p), {}, <<>>)
    IN IF r.status = "ok" /\ r.extras # <<>>
       THEN Exit(2, "unrecognized arguments", Range(r.extras), {})
       ELSE r

-----------------------------------------------------------------------------
(* The multiple_align stage (haphpipe.stages.multiple_align) and           *)
(* haphpipe.utils.sysutils                                                 *)

(* The name of the function the stage binds as its handler. *)
StageHandler == "multiple_align"

(* The arguments the stage's registration function declares: a required    *)
(* --input and an optional --threads of type int with default 1.           *)
StageArguments ==
    {Option("--input", "input", "store", "str", TRUE, NoneVal),
     Option("--threads", "threads", "store", "int", FALSE, Int(1))}

(* stageparser(slot): declare the stage's arguments on the slot and bind   *)
(* the handler under the reserved field func (set_defaults).               *)
stageparser(slot) ==
    [slot EXCEPT !.options = @ \cup StageArguments,
                 !.defaults = @ \cup {Attr("func", Func(StageHandler))}]

(* The keyword names a handler's signature accepts. *)
HandlerParams(h) == {o.dest : o \in StageArguments}

(* The keyword names a handler's signature requires (no default). *)
HandlerRequired(h) == {o.dest : o \in {q \in StageArguments : q.required}}

(* sysutils.args_params(args): the parsed parameters the bound handler     *)
(* accepts; dispatch bookkeeping such as func is left out.                 *)
args_params(ns) ==
    {a \in ns : a.k # "func" /\ a.k \in HandlerParams(GetAttr(ns, "func").s)}

(* What a handler can do once called: return a value or raise an error. *)
HandlerReturns == {NoneVal, Str("alignment.fasta")}

HandlerErrors == {"SysUtilError", "OSError"}

-----------------------------------------------------------------------------
(* console() *)

Running ==
    [kind |-> "running", code |-> 0, error |-> "", diag |-> "", what |-> {},
     usage |-> FALSE, listing |-> {}]

(* parse_args left through SystemExit: parser.error or the help action. *)
SystemExit(r) ==
    [kind |-> "SystemExit", code |-> r.code, error |-> "", diag |-> r.diag,
     what |-> r.what, usage |-> r.usage, listing |-> r.listing]

(* An exception nothing catches leaves the interpreter with a traceback    *)
(* and exit status 1.                                                      *)
Uncaught(e) ==
    [kind |-> "exception", code |-> 1, error |-> e, diag |-> "", what |-> {},
     usage |-> FALSE, listing |-> {}]

(* console() ran to its end; the interpreter exits with status 0. *)
Returned ==
    [kind |-> "returned", code |-> 0, error |-> "", diag |-> "", what |-> {},
     usage |-> FALSE, listing |-> {}]

(* Mutant: the parser is built once and kept between calls. *)
RootParser_Cached == IF parser.name = "phylo" THEN parser ELSE NewParser("phylo")

(* Line 16: parser = argparse.ArgumentParser(...), a new object per call. *)
RootParser == NewParser("phylo")

(* Line 19: parser.add_subparsers(...) gives the parser its subparsers     *)
(* action.  A parser takes one; AddSubparsers has the error for a second.  *)
add_subparsers(p) == [p EXCEPT !.subparsers = TRUE]

(* Mutant: the slot is made without a help option. *)
add_parser_NoHelp(name) == [NewParser(name) EXCEPT !.options = {}]

(* Line 22: sub.add_parser(name) makes the slot, a parser of its own,      *)
(* and registers it under the name.                                        *)
add_parser(name) == NewParser(name)

(* Mutant: line 23 is live, build_tree is registered too. *)
RegisteredStages_WithBuildTree == {"multiple_align", "build_tree"}

(* Line 22: the stages console() registers.  build_tree is commented out. *)
RegisteredStages == {"multiple_align"}

(* Mutant: the whole namespace is passed, **vars(args). *)
CallKwargs_Unfiltered(ns) == ns

(* Line 27: the keywords of the call, **sysutils.args_params(args). *)
CallKwargs(ns) == args_params(ns)

(* Mutant: the call sits in a try that swallows the error. *)
OnHandlerError_Swallowed(e) == Returned

(* Line 27: the call is a bare expression statement outside any try: an    *)
(* error the handler raises leaves console() as it is.                     *)
OnHandlerError(e) == Uncaught(e)

(* Mutant: return args.func(...). *)
ConsoleReturn_Forwarded(v) == v

(* Lines 27-28: the value of the call is dropped; console() ends without   *)
(* a return statement and so returns None.                                 *)
ConsoleReturn(v) == NoneVal

Init ==
    /\ py \in Pythons
    /\ argv \in Argvs
    /\ pc = "l16"
    /\ parser = NewParser("")
    /\ args = {}
    /\ kwargs = {}
    /\ calls = <<>>
    /\ outcome = Running
    /\ retval = NoneVal
    /\ run = 1
    /\ log = <<>>

(* Lines 16-18 *)
BuildParser ==
    /\ pc = "l16"
    /\ parser' = RootParser
    /\ pc' = "l19"
    /\ UNCHANGED <<py, argv, args, kwargs, calls, outcome, retval, run, log>>

(* Lines 19-21 *)
AddSubparsers ==
    /\ pc = "l19"
    /\ IF parser.subparsers
       THEN /\ outcome' = SystemExit(Exit(2, "cannot have multiple subparser arguments", {}, {}))
            /\ pc' = "done"
            /\ UNCHANGED parser
       ELSE /\ parser' = add_subparsers(parser)
            /\ pc' = "l22"
            /\ UNCHANGED outcome
    /\ UNCHANGED <<py, argv, args, kwargs, calls, retval, run, log>>

(* Line 22: multiple_align.stageparser(sub.add_parser('multiple_align')) *)
RegisterStages ==
    /\ pc = "l22"
    /\ parser' = [parser EXCEPT !.choices =
                     @ \cup {stageparser(add_parser(name)) : name \in RegisteredStages}]
    /\ pc' = "l26"
    /\ UNCHANGED <<py, argv, args, kwargs, calls, outcome, retval, run, log>>

(* Line 26: args = parser.parse_args() *)
ParseArgs ==
    /\ pc = "l26"
    /\ LET r == parse_args(py, parser, argv)
       IN IF r.status = "exit"
          THEN /\ outcome' = SystemExit(r)
               /\ pc' = "done"
               /\ UNCHANGED args
          ELSE /\ args' = r.ns
               /\ pc' = "l27"
               /\ UNCHANGED outcome
    /\ UNCHANGED <<py, argv, parser, kwargs, calls, retval, run, log>>

(* Line 27: args.func is looked up first, then the keywords are built. *)
ResolveHandler ==
    /\ pc = "l27"
    /\ IF ~HasAttr(args, "func")
       THEN /\ outcome' = Uncaught("AttributeError")
            /\ pc' = "done"
            /\ UNCHANGED kwargs
       ELSE /\ kwargs' = CallKwargs(args)
            /\ pc' = "call"
            /\ UNCHANGED outcome
    /\ UNCHANGED <<py, argv, parser, args, calls, retval, run, log>>

(* Line 27: the call.  Keywords the signature does not accept, or a        *)
(* required one left out, are a TypeError before the handler's body runs;  *)
(* otherwise the handler runs and returns or raises.                       *)
Invoke ==
    /\ pc = "call"
    /\ LET h == GetAttr(args, "func").s
       IN IF ~(Names(kwargs) \subseteq HandlerParams(h))
             \/ ~(HandlerRequired(h) \subseteq Names(kwargs))
          THEN /\ outcome' = Uncaught("TypeError")
               /\ UNCHANGED <<calls, retval>>
          ELSE \/ \E v \in HandlerReturns :
                    /\ calls' = Append(calls, [handler |-> h, kwargs |-> kwargs,
                                               result |-> "returned", value |-> v,
                                               error |-> ""])
                    /\ retval' = ConsoleReturn(v)
                    /\ outcome' = Returned
               \/ \E e \in HandlerErrors :
                    /\ calls' = Append(calls, [handler |-> h, kwargs |-> kwargs,
                                               result |-> "raised", value |-> NoneVal,
                                               error |-> e])
                    /\ outcome' = OnHandlerError(e)
                    /\ UNCHANGED retval
    /\ pc' = "done"
    /\ UNCHANGED <<py, argv, parser, args, kwargs, run, log>>

(* What one finished run did, as far as the handler's own behaviour does  *)
(* not decide it: the parse result and the invocations made.                *)
RunRecord ==
    [argv |-> argv,
     exited |-> outcome.kind = "SystemExit",
     code |-> IF outcome.kind = "SystemExit" THEN outcome.code ELSE 0,
     diag |-> outcome.diag,
     parsed |-> IF outcome.kind = "SystemExit" THEN {} ELSE args,
     invoked |-> [i \in DOMAIN calls |-> [handler |-> calls[i].handler,
                                          kwargs |-> calls[i].kwargs]]]

(* console() is run a second time on the same sys.argv.  The first run's   *)
(* objects are left as they were; the second run binds parser (line 16)    *)
(* and args (line 26) anew before it uses them.                            *)
Rerun ==
    /\ pc = "done"
    /\ run = 1
    /\ log' = Append(log, RunRecord)
    /\ run' = 2
    /\ pc' = "l16"
    /\ calls' = <<>>
    /\ outcome' = Running
    /\ retval' = NoneVal
    /\ UNCHANGED <<py, argv, parser, args, kwargs>>

Next ==
    \/ BuildParser
    \/ AddSubparsers
    \/ RegisterStages
    \/ ParseArgs
    \/ ResolveHandler
    \/ Invoke

Spec == Init /\ [][Next]_vars

NextRerun == Next \/ Rerun

SpecRerun == Init /\ [][NextRerun]_vars
-----------------------------------------------------------------------------
(* Vocabulary of the properties *)

Done == pc = "done"

(* The position of the first token that is not an option string (the token *)
(* the root parser takes for the subcommand), 0 if there is none.          *)
FirstPositional ==
    IF \E i \in DOMAIN argv : argv[i] \notin OptionLike
    THEN CHOOSE i \in DOMAIN argv :
            /\ argv[i] \notin OptionLike
            /\ \A j \in 1..(i - 1) : argv[j] \in OptionLike
    ELSE 0

(* The tokens after the subcommand. *)
StageArgv == SubSeq(argv, FirstPositional + 1, Len(argv))

SelectsStage(name) == FirstPositional # 0 /\ argv[FirstPositional] = name

HelpRequested == \E i \in DOMAIN argv : argv[i] = "--help"

HelpBeforeSubcommand == \E j \in 1..(FirstPositional - 1) : argv[j] = "--help"

(* No --input followed by a value after the subcommand. *)
InputMissing ==
    ~\E k \in 1..(Len(StageArgv) - 1) : StageArgv[k] = "--input" /\ StageArgv[k + 1] \notin OptionLike

(* Some --threads after the subcommand is followed by a value that is no   *)
(* integer literal.                                                        *)
ThreadsMistyped ==
    \E k \in 1..(Len(StageArgv) - 1) :
        StageArgv[k] = "--threads" /\ StageArgv[k + 1] \notin OptionLike /\ StageArgv[k + 1] # "4"

(* The tail is a sequence of well-formed --threads <int> pairs. *)
OnlyValidThreads ==
    /\ Len(StageArgv) % 2 = 0
    /\ \A k \in 1..Len(StageArgv) : StageArgv[k] = (IF k % 2 = 1 THEN "--threads" ELSE "4")

ParseFailure == outcome.kind = "SystemExit" /\ outcome.code # 0 /\ outcome.usage

-----------------------------------------------------------------------------
(* C1: with no subcommand token on the command line (and no help request)  *)
(* parsing never succeeds with an empty selection, and the run ends as a   *)
(* usage failure: usage reported, non-zero status, no handler invoked, no  *)
(* unhandled error from looking up the bound handler.                      *)
C1_NoSubcommandIsUsageError ==
    (FirstPositional = 0 /\ ~HelpRequested) =>
        /\ pc \notin {"l27", "call"}
        /\ Done => /\ ParseFailure
                   /\ calls = <<>>
                   /\ outcome.error # "AttributeError"

(* C2: the keyword names passed to the selected handler are among the      *)
(* names its signature accepts, and func is never one of them.             *)
C2_OnlyAcceptedKeywords ==
    pc = "call" =>
        /\ Names(kwargs) \subseteq HandlerParams(GetAttr(args, "func").s)
        /\ "func" \notin Names(kwargs)

C2_Witness ==
    /\ pc = "call"
    /\ HasAttr(args, "func")
    /\ Names(kwargs) = {"input", "threads"}

(* C3 as stated: a handler is invoked only with every required parameter   *)
(* present and of its declared type, and a run that names a stage but      *)
(* misses or mistypes a required parameter ends at parsing with a non-zero *)
(* status and no invocation.                                               *)
C3_InvalidParametersExitNonZero ==
    /\ \A i \in DOMAIN calls :
          /\ HasAttr(calls[i].kwargs, "input")
          /\ GetAttr(calls[i].kwargs, "input").ty = "str"
          /\ HasAttr(calls[i].kwargs, "threads") =>
                GetAttr(calls[i].kwargs, "threads").ty = "int"
    /\ (SelectsStage("multiple_align") /\ (InputMissing \/ ThreadsMistyped)) =>
          /\ pc \notin {"l27", "call"}
          /\ Done => outcome.kind = "SystemExit" /\ outcome.code # 0 /\ calls = <<>>

(* C3 amended: as above, but the status is non-zero unless a --help token  *)
(* is reached before the violation is detected; then the run prints help   *)
(* and exits 0, still without invoking the handler.                        *)
C3_InvalidParametersNeverDispatched ==
    /\ \A i \in DOMAIN calls :
          /\ HasAttr(calls[i].kwargs, "input")
          /\ GetAttr(calls[i].kwargs, "input").ty = "str"
          /\ HasAttr(calls[i].kwargs, "threads") =>
                GetAttr(calls[i].kwargs, "threads").ty = "int"
    /\ (SelectsStage("multiple_align") /\ (InputMissing \/ ThreadsMistyped)) =>
          /\ pc \notin {"l27", "call"}
          /\ Done => /\ outcome.kind = "SystemExit"
                     /\ calls = <<>>
                     /\ outcome.code = 0 => outcome.diag = "help"
                     /\ ~HelpRequested => outcome.code # 0

C3_Witness ==
    /\ Done
    /\ argv = <<"multiple_align", "--input", "foo.fa", "--threads", "foo.fa">>
    /\ outcome.code = 2
    /\ outcome.diag = "invalid value"

(* C4 as stated: a first positional token that is not a registered stage   *)
(* name (only multiple_align is registered) ends the run non-zero with a   *)
(* diagnostic naming it and no invocation; an invocation happens only for  *)
(* a token equal to a registered name, and is of that stage's handler.     *)
C4_UnregisteredSubcommandExitsNonZero ==
    /\ pc \in {"l26", "l27", "call", "done"} =>
          {c.name : c \in parser.choices} = {"multiple_align"}
    /\ calls # <<>> =>
          SelectsStage("multiple_align") /\ calls[1].handler = "multiple_align"
    /\ (FirstPositional # 0 /\ ~SelectsStage("multiple_align") /\ Done) =>
          /\ calls = <<>>
          /\ outcome.kind = "SystemExit"
          /\ outcome.code # 0
          /\ outcome.diag = "invalid choice"
          /\ outcome.what = {argv[FirstPositional]}

(* C4 amended: as above unless --help precedes the token on the command    *)
(* line; then the run prints the top-level help and exits 0, still without *)
(* invoking a handler.                                                     *)
C4_UnregisteredSubcommandRejected ==
    /\ pc \in {"l26", "l27", "call", "done"} =>
          {c.name : c \in parser.choices} = {"multiple_align"}
    /\ calls # <<>> =>
          SelectsStage("multiple_align") /\ calls[1].handler = "multiple_align"
    /\ (FirstPositional # 0 /\ ~SelectsStage("multiple_align") /\ Done) =>
          /\ calls = <<>>
          /\ outcome.kind = "SystemExit"
          /\ IF HelpBeforeSubcommand
             THEN outcome.code = 0 /\ outcome.diag = "help"
             ELSE /\ outcome.code # 0
                  /\ outcome.diag = "invalid choice"
                  /\ outcome.what = {argv[FirstPositional]}

C4_Witness ==
    /\ Done
    /\ argv = <<"build_tree", "--input", "foo.fa">>
    /\ outcome.diag = "invalid choice"
    /\ outcome.what = {"build_tree"}

(* C5: an error the handler raises leaves console() as the same error,     *)
(* uncaught, with a non-zero status, after exactly one invocation.         *)
C5_HandlerErrorPropagates ==
    (Done /\ calls # <<>> /\ calls[Len(calls)].result = "raised") =>
        /\ outcome.kind = "exception"
        /\ outcome.error = calls[Len(calls)].error
        /\ outcome.code # 0
        /\ Len(calls) = 1

C5_Witness ==
    /\ Done
    /\ Len(calls) = 1
    /\ calls[1].result = "raised"
    /\ calls[1].error = "OSError"
    /\ outcome.error = "OSError"

(* C6 as stated: after a successful dispatch console() returns the value   *)
(* the handler returned.                                                   *)
C6_ReturnsHandlerValue ==
    (Done /\ calls # <<>> /\ calls[1].result = "returned") =>
        retval = calls[1].value

(* C6 amended: after a successful dispatch console() returns None whatever *)
(* the handler returned, and the run ends with status 0.                   *)
C6_ReturnsNone ==
    (Done /\ calls # <<>> /\ calls[1].result = "returned") =>
        /\ retval = NoneVal
        /\ outcome.kind = "returned"
        /\ outcome.code = 0

C6_Witness ==
    /\ Done
    /\ Len(calls) = 1
    /\ calls[1].result = "returned"
    /\ calls[1].value = Str("alignment.fasta")
    /\ retval = NoneVal

(* C7: argv is parsed only after every stage is registered, a handler is   *)
(* invoked only after a successful parse and at most once, exactly once    *)
(* when the parse succeeded, and a finished run has invoked a handler or   *)
(* reported a parse failure.                                               *)
C7_SingleShotOrder ==
    /\ pc \in {"l26", "l27", "call", "done"} =>
          {c.name : c \in parser.choices} = RegisteredStages
    /\ calls # <<>> => Done /\ outcome.kind # "SystemExit"
    /\ Len(calls) <= 1
    /\ (Done /\ outcome.kind # "SystemExit") => Len(calls) = 1
    /\ Done => (Len(calls) = 1 \/ outcome.kind = "SystemExit")

C9_HelpListsDeclaredOnly ==
    \A name \in RegisteredStages :
        (Done /\ argv = <<name, "--help">>) =>
            /\ outcome.kind = "SystemExit"
            /\ outcome.code = 0
            /\ outcome.listing = {o.flag : o \in StageArguments}
            /\ calls = <<>>

(* C9 amended: S --help exits 0, lists the arguments S declared and the    *)
(* --help option argparse adds to every parser, and invokes no handler.    *)
C9_HelpListsDeclaredAndHelp ==
    \A name \in RegisteredStages :
        (Done /\ argv = <<name, "--help">>) =>
            /\ outcome.kind = "SystemExit"
            /\ outcome.code = 0
            /\ outcome.listing = {o.flag : o \in StageArguments} \cup {"--help"}
            /\ calls = <<>>

C9_Witness ==
    /\ Done
    /\ argv = <<"multiple_align", "--help">>
    /\ outcome.code = 0
    /\ outcome.listing = {"--help", "--input", "--threads"}

(* C10: a second run on the same command line parses to the same result    *)
(* and makes its own invocation of the same handler with the same          *)
(* keywords as the first; nothing of the first run shows in the second.    *)
C10_RerunSameDispatch ==
    (Done /\ run = 2) =>
        /\ Len(log) = 1
        /\ RunRecord = log[1]

C10_Witness ==
    /\ Done
    /\ run = 2
    /\ Len(log) = 1
    /\ Len(log[1].invoked) = 1
    /\ Len(calls) = 1
    /\ calls[1].kwargs = {Attr("input", Str("foo.fa")), Attr("threads", Int(4))}

=============================================================================
